---- MODULE Spec2Model ----
(***************************************************************************)
(* Model of the faex VS Code extension (hail-kang/vscode-extension-faex). *)
(*                                                                         *)
(* Four specifications share the variables of this module:                 *)
(*   SpecEdit  the quick-fix edit synthesizer of providers/codeLens.ts     *)
(*             (CodeActionProvider), fed by the result mapper              *)
(*             convertEndpoint of analyzer/analyzer.ts;                    *)
(*   Spec      the analysis life cycle: DiagnosticsManager, the            *)
(*             EndpointAnalyzer singleton, the process invoker and the     *)
(*             event handlers registered by activate();                    *)
(*   SpecRecord  the helpers of types.ts on bounded endpoint records;      *)
(*   SpecExclude the first analysis request under bounded exclusion        *)
(*             settings (utils/config.ts).                                 *)
(*                                                                         *)
(* Text is modelled character by character: a line is a sequence of        *)
(* one-character strings, a document a sequence of lines.  Columns and     *)
(* line indexes are 0-based as in the source; At(text, i) is text[i].      *)
(***************************************************************************)
EXTENDS Integers, Sequences, FiniteSets, TLC

VARIABLES
    \* ---- edit synthesizer (SpecEdit) ----
    doc,            \* vscode.TextDocument: the lines of the document
    endpoint,       \* <<>> or <<EndpointInfo>>: the endpoint the quick fix is about
    origin,         \* "none" | "analysis" (convertEndpoint) | "direct" (caller-built record)
    requested,      \* newExceptions passed to createAddExceptionEdit
    edit,           \* the vscode.WorkspaceEdit returned
    endLine,        \* <<>> or <<n>>: result of findDecoratorEndLine in the insert branch
    phase,          \* "typing" | "analyzed" | "fixed"
    \* ---- analysis life cycle (Spec) ----
    config,             \* getConfig(): [enable, exclude, validateOnSave]
    docs,               \* vscode.workspace.textDocuments: path -> [open, dirty]
    ext,                \* position of activate(): "inactive" | "disabled" | "probing"
                        \*   | "activating" | "active" | "failed"
    capturedConfig,     \* config.validateOnSave as read by activate(): <<>> before that
    analysisInProgress, \* DiagnosticsManager.analysisInProgress
    endpointCache,      \* DiagnosticsManager.endpointCache: path -> <<>> | <<endpoints>>
    diagnostics,        \* DiagnosticsManager.diagnosticCollection: path -> <<>> | <<list>>
    analyzerCache,      \* EndpointAnalyzer.cache: path -> <<>> | <<endpoints>>
    calls,              \* analyzeDocument calls suspended at an await: [id, path, pc]
    loops,              \* suspended `for ... await analyzeDocument` loops: [kind, todo, waiting]
    wsRunning,          \* analyzeWorkspace invocations in flight (faex.checkWorkspace)
    uninvoked,          \* path -> requests that passed the in-progress guard minus
                        \*   runFaexCli calls made for the path
    droppedNow,         \* paths whose request the latest step dropped at the guard
    messages,           \* notifications the latest step has shown: [toolNotFound, runFailed]
    checkReport,        \* the notification faex.checkCurrentFile shows in this step
    toolInstalled,      \* the faex executable can be spawned
    lastClose,          \* the subprocess close the latest step has handled:
                        \*   <<>> or <<[path, code, stdout, analysis]>>
    errorsShown,        \* showErrorMessage calls of runFaexCli so far, counted up to MaxNotices
    codeLenses,         \* the lenses provideCodeLenses returns in this step:
                        \*   <<>> or <<[path, lenses]>>
    evicted,            \* paths the close handler has evicted while an analysis of them
                        \*   was in flight, and for which no request has been accepted since
    \* ---- endpoint records (SpecRecord) ----
    rec,                \* <<>> or <<EndpointInfo>>: the record the helpers are called on
    undeclaredResult,   \* <<>> or <<the list getUndeclaredExceptions returned>>
    unusedResult,       \* <<>> or <<the list getUnusedDeclarations returned>>
    \* ---- file exclusion (SpecExclude) ----
    target,             \* <<>> or <<document.uri.fsPath of the document analysed>>
    excludeResult,      \* <<>> or <<what shouldExcludeFile returned for the path>>
    excludeRun          \* <<>> or <<what analyzeDocument did with the document>>

recVars == <<rec, undeclaredResult, unusedResult>>

exclVars == <<target, excludeResult, excludeRun>>

editVars == <<doc, endpoint, origin, requested, edit, endLine, phase>>

lifeVars == <<config, docs, ext, capturedConfig, analysisInProgress, endpointCache,
              diagnostics, analyzerCache, calls, loops, wsRunning, uninvoked,
              droppedNow, messages, checkReport, toolInstalled, errorsShown,
              lastClose, evicted, codeLenses>>

vars == <<doc, endpoint, origin, requested, edit, endLine, phase,
          config, docs, ext, capturedConfig, analysisInProgress, endpointCache,
          diagnostics, analyzerCache, calls, loops, wsRunning, uninvoked,
          droppedNow, messages, checkReport, toolInstalled, errorsShown, lastClose,
          evicted, codeLenses,
          rec, undeclaredResult, unusedResult,
          target, excludeResult, excludeRun>>

-----------------------------------------------------------------------------
(* Bounds *)

MaxCont == 2        \* continuation lines typed after the declaring line
MaxNew == 2         \* names in a directly requested add-list
MaxDeclared == 2    \* names in the declared list of an endpoint record
MaxOccurrences == 2 \* occurrences in the detected list of an endpoint record
MaxNotices == 2     \* error notifications counted; further ones leave the count

-----------------------------------------------------------------------------
(* Generic helpers for JavaScript strings and arrays *)

None == <<>>
Some(x) == <<x>>

At(text, i) == text[i + 1]

\* Array.prototype.includes
Includes(arr, x) == \E k \in 1..Len(arr) : arr[k] = x

\* Array.prototype.filter with the predicate "not included in excl"
RECURSIVE FilterNotIn(_, _)
FilterNotIn(arr, excl) ==
    IF arr = <<>> THEN <<>>
    ELSE IF Includes(excl, Head(arr)) THEN FilterNotIn(Tail(arr), excl)
    ELSE <<Head(arr)>> \o FilterNotIn(Tail(arr), excl)

\* Array.prototype.join over character sequences
RECURSIVE Join(_, _)
Join(arr, sep) ==
    IF arr = <<>> THEN <<>>
    ELSE IF Len(arr) = 1 THEN arr[1]
    ELSE arr[1] \o sep \o Join(Tail(arr), sep)

\* String.prototype.substring(from, to), 0-based, to exclusive
Substring(text, from, to) == SubSeq(text, from + 1, to)

\* text.startsWith(word, i)
StartsWithAt(text, word, i) ==
    /\ i + Len(word) <= Len(text)
    /\ \A k \in 1..Len(word) : text[i + k] = word[k]

\* String.prototype.indexOf(word): first index, or -1
IndexOf(text, word) ==
    IF \E i \in 0..Len(text) : StartsWithAt(text, word, i)
    THEN CHOOSE i \in 0..Len(text) :
            /\ StartsWithAt(text, word, i)
            /\ \A j \in 0..(i - 1) : ~StartsWithAt(text, word, j)
    ELSE -1

\* String.prototype.lastIndexOf(ch) for a single character: last index, or -1
LastIndexOf(text, ch) ==
    IF \E i \in 1..Len(text) : text[i] = ch
    THEN (CHOOSE i \in 1..Len(text) :
            /\ text[i] = ch
            /\ \A j \in (i + 1)..Len(text) : text[j] # ch) - 1
    ELSE -1

\* the characters matched by \s that occur in the modelled documents
IsSpace(ch) == ch \in {" ", "\t"}

\* String.prototype.trim
RECURSIVE TrimStart(_)
TrimStart(text) ==
    IF text # <<>> /\ IsSpace(Head(text)) THEN TrimStart(Tail(text)) ELSE text

RECURSIVE TrimEnd(_)
TrimEnd(text) ==
    IF text # <<>> /\ IsSpace(text[Len(text)])
    THEN TrimEnd(SubSeq(text, 1, Len(text) - 1))
    ELSE text

Trim(text) == TrimEnd(TrimStart(text))

EndsWith(text, ch) == text # <<>> /\ text[Len(text)] = ch

-----------------------------------------------------------------------------
\* The regular expression of createAddExceptionEdit: the word exceptions,
\* optional white space, =, optional white space, [, any run of characters
\* other than ], and ].

ExceptionsWord ==
    <<"e", "x", "c", "e", "p", "t", "i", "o", "n", "s">>

\* index just after the longest run of \s starting at i
RECURSIVE SkipSpaces(_, _)
SkipSpaces(text, i) ==
    IF i < Len(text) /\ IsSpace(At(text, i)) THEN SkipSpaces(text, i + 1) ELSE i

\* index just after the longest run of [^\]] starting at i
RECURSIVE SkipNotBracket(_, _)
SkipNotBracket(text, i) ==
    IF i < Len(text) /\ At(text, i) # "]" THEN SkipNotBracket(text, i + 1) ELSE i

\* Length of the match of the pattern anchored at index i, or -1.  Every
\* quantifier of the pattern is followed by a character outside its class,
\* so the greedy match is the only candidate at a given start.
MatchLengthAt(text, i) ==
    IF ~StartsWithAt(text, ExceptionsWord, i) THEN -1
    ELSE LET eq == SkipSpaces(text, i + Len(ExceptionsWord)) IN
         IF ~(eq < Len(text) /\ At(text, eq) = "=") THEN -1
         ELSE LET br == SkipSpaces(text, eq + 1) IN
              IF ~(br < Len(text) /\ At(text, br) = "[") THEN -1
              ELSE LET cl == SkipNotBracket(text, br + 1) IN
                   IF ~(cl < Len(text) /\ At(text, cl) = "]") THEN -1
                   ELSE cl + 1 - i

\* lineText.match(...): [index, length] of the leftmost match, or <<>> (null)
ExceptionsMatch(text) ==
    IF \E i \in 0..Len(text) : MatchLengthAt(text, i) >= 0
    THEN LET idx == CHOOSE i \in 0..Len(text) :
                        /\ MatchLengthAt(text, i) >= 0
                        /\ \A j \in 0..(i - 1) : MatchLengthAt(text, j) < 0
         IN Some([index |-> idx, length |-> MatchLengthAt(text, idx)])
    ELSE None

-----------------------------------------------------------------------------
(* types.ts / analyzer.ts: endpoint records and the result mapper          *)

\* the mapper names the endpoint's own line as the line of its exception list
convertEndpointWithListLine(faexEndpoint) ==
    [ file               |-> faexEndpoint.file,
      line               |-> faexEndpoint.line,
      decoratorLine      |-> faexEndpoint.line,
      exceptionsLine     |-> Some(faexEndpoint.line),
      declaredExceptions |-> faexEndpoint.declared_exceptions,
      detectedExceptions |-> <<>>,
      undeclaredExceptions |->
          Some([k \in 1..Len(faexEndpoint.undeclared_exceptions) |->
                  [ exceptionClass |-> faexEndpoint.undeclared_exceptions[k].class,
                    line           |-> faexEndpoint.undeclared_exceptions[k].line ]]) ]

\* convertEndpoint: FaexEndpoint (tool JSON) -> EndpointInfo.  The record has
\* no exceptionsLine and an empty detectedExceptions list.
convertEndpoint(faexEndpoint) ==
    [ file               |-> faexEndpoint.file,
      line               |-> faexEndpoint.line,
      decoratorLine      |-> faexEndpoint.line,
      exceptionsLine     |-> None,
      declaredExceptions |-> faexEndpoint.declared_exceptions,
      detectedExceptions |-> <<>>,
      undeclaredExceptions |->
          Some([k \in 1..Len(faexEndpoint.undeclared_exceptions) |->
                  [ exceptionClass |-> faexEndpoint.undeclared_exceptions[k].class,
                    line           |-> faexEndpoint.undeclared_exceptions[k].line ]]) ]

\* declared names of the endpoint as a set (new Set(endpoint.declaredExceptions))
RECURSIVE FilterUndeclared(_, _)
FilterUndeclared(detected, declared) ==
    IF detected = <<>> THEN <<>>
    ELSE IF Includes(declared, Head(detected).exceptionClass)
         THEN FilterUndeclared(Tail(detected), declared)
         ELSE <<Head(detected)>> \o FilterUndeclared(Tail(detected), declared)

\* an empty list from the tool is taken as no list
getUndeclaredExceptionsIfNonEmpty(ep) ==
    IF ep.undeclaredExceptions # None /\ ep.undeclaredExceptions[1] # <<>>
    THEN ep.undeclaredExceptions[1]
    ELSE FilterUndeclared(ep.detectedExceptions, ep.declaredExceptions)

\* `if (endpoint._undeclaredExceptions)`: an array, empty or not, is truthy
getUndeclaredExceptions(ep) ==
    IF ep.undeclaredExceptions # None
    THEN ep.undeclaredExceptions[1]
    ELSE FilterUndeclared(ep.detectedExceptions, ep.declaredExceptions)

\* endpoint.detectedExceptions.map((exc) => exc.exceptionClass)
DetectedClasses(detected) == [k \in 1..Len(detected) |-> detected[k].exceptionClass]

\* the declared names are filtered against the undeclared list of the tool
getUnusedDeclarationsByUndeclared(ep) ==
    FilterNotIn(ep.declaredExceptions,
                DetectedClasses(IF ep.undeclaredExceptions # None
                                THEN ep.undeclaredExceptions[1] ELSE <<>>))

getUnusedDeclarations(ep) ==
    FilterNotIn(ep.declaredExceptions, DetectedClasses(ep.detectedExceptions))

-----------------------------------------------------------------------------
(* providers/codeLens.ts: CodeActionProvider                               *)

\* The loop of findDecoratorEndLine.  The loop state is (line, i, parenCount,
\* inString, stringChar).  The result records whether the loop left through
\* `return line` (found) and where; falling out of the loop gives found = FALSE.
RECURSIVE ScanDecorator(_, _, _, _, _, _)
ScanDecorator(document, line, i, parenCount, inString, stringChar) ==
    IF line >= Len(document) THEN [found |-> FALSE, line |-> -1, col |-> -1]
    ELSE LET text == document[line + 1] IN
         IF i >= Len(text)
         THEN ScanDecorator(document, line + 1, 0, parenCount, inString, stringChar)
         ELSE LET char == At(text, i)
                  prevChar == IF i > 0 THEN At(text, i - 1) ELSE ""
              IN
              IF (char = "\"" \/ char = "'") /\ prevChar # "\\"
              THEN IF ~inString
                   THEN ScanDecorator(document, line, i + 1, parenCount, TRUE, char)
                   ELSE IF char = stringChar
                        THEN ScanDecorator(document, line, i + 1, parenCount,
                                           FALSE, stringChar)
                        ELSE ScanDecorator(document, line, i + 1, parenCount,
                                           inString, stringChar)
              ELSE IF inString
              THEN ScanDecorator(document, line, i + 1, parenCount, inString, stringChar)
              ELSE IF char = "("
              THEN ScanDecorator(document, line, i + 1, parenCount + 1,
                                 inString, stringChar)
              ELSE IF char = ")"
              THEN IF parenCount - 1 = 0
                   THEN [found |-> TRUE, line |-> line, col |-> i]
                   ELSE ScanDecorator(document, line, i + 1, parenCount - 1,
                                      inString, stringChar)
              ELSE ScanDecorator(document, line, i + 1, parenCount,
                                 inString, stringChar)

\* findDecoratorEndLine: the line of the `return line`, else startLine
findDecoratorEndLine(document, startLine) ==
    LET scan == ScanDecorator(document, startLine, 0, 0, FALSE, "")
    IN IF scan.found THEN scan.line ELSE startLine

\* the requested names are appended without the filter
allExceptionsUnfiltered(ep, newExceptions) ==
    ep.declaredExceptions \o newExceptions

\* the list built at the top of createAddExceptionEdit
allExceptions(ep, newExceptions) ==
    ep.declaredExceptions \o FilterNotIn(newExceptions, ep.declaredExceptions)

\* `exceptions=[${allExceptions.join(", ")}]`
ExceptionsText(names) ==
    <<"e", "x", "c", "e", "p", "t", "i", "o", "n", "s", "=", "[">>
        \o Join(names, <<",", " ">>) \o <<"]">>

\* vscode.WorkspaceEdit with no entry / one replacement / one insertion
EmptyEdit ==
    [kind |-> "none", line |-> 0, startCol |-> 0, endCol |-> 0, newText |-> <<>>]

ReplaceEdit(line, startCol, endCol, newText) ==
    [kind |-> "replace", line |-> line, startCol |-> startCol,
     endCol |-> endCol, newText |-> newText]

InsertEdit(line, col, newText) ==
    [kind |-> "insert", line |-> line, startCol |-> col,
     endCol |-> col, newText |-> newText]

\* without a match the list is inserted at the end of the line
createReplaceEditOrInsert(document, ep, newExceptions) ==
    LET excLine  == ep.exceptionsLine[1] - 1
        lineText == document[excLine + 1]
        match    == ExceptionsMatch(lineText)
    IN  IF match # None
        THEN LET startCol == IndexOf(lineText, ExceptionsWord)
                 endCol   == startCol + match[1].length
             IN ReplaceEdit(excLine, startCol, endCol,
                            ExceptionsText(allExceptions(ep, newExceptions)))
        ELSE InsertEdit(excLine, Len(lineText),
                        ExceptionsText(allExceptions(ep, newExceptions)))

\* createAddExceptionEdit, replace branch (exceptionsLine !== undefined)
createReplaceEdit(document, ep, newExceptions) ==
    LET excLine  == ep.exceptionsLine[1] - 1
        lineText == document[excLine + 1]
        match    == ExceptionsMatch(lineText)
    IN  IF match # None
        THEN LET startCol == IndexOf(lineText, ExceptionsWord)
                 endCol   == startCol + match[1].length
             IN ReplaceEdit(excLine, startCol, endCol,
                            ExceptionsText(allExceptions(ep, newExceptions)))
        ELSE EmptyEdit

\* createAddExceptionEdit, insert branch (exceptionsLine === undefined)
createInsertEdit(document, ep, newExceptions) ==
    LET decoratorLine     == ep.decoratorLine - 1
        decoratorEndLine  == findDecoratorEndLine(document, decoratorLine)
        endLineText       == document[decoratorEndLine + 1]
        closingParenIndex == LastIndexOf(endLineText, ")")
    IN  IF closingParenIndex >= 0
        THEN LET beforeParen == Trim(Substring(endLineText, 0, closingParenIndex))
                 needsComma  == Len(beforeParen) > 0 /\ ~EndsWith(beforeParen, ",")
                 insertText  == (IF needsComma THEN <<",">> ELSE <<>>)
                                  \o <<"\n", " ", " ", " ", " ">>
                                  \o ExceptionsText(allExceptions(ep, newExceptions))
             IN InsertEdit(decoratorEndLine, closingParenIndex, insertText)
        ELSE EmptyEdit

createAddExceptionEdit(document, ep, newExceptions) ==
    IF ep.exceptionsLine # None
    THEN createReplaceEdit(document, ep, newExceptions)
    ELSE createInsertEdit(document, ep, newExceptions)

-----------------------------------------------------------------------------
(* utils/config.ts: file exclusion *)

\* the workspace folder of vscode.workspace.asRelativePath
WorkspaceRoot == <<"/", "w">>

\* vscode.workspace.asRelativePath: the path below the workspace folder, or
\* the path itself when the file is outside the folder
asRelativePath(filePath) ==
    LET prefix == WorkspaceRoot \o <<"/">>
    IN IF StartsWithAt(filePath, prefix, 0)
       THEN SubSeq(filePath, Len(prefix) + 1, Len(filePath))
       ELSE filePath

\* The regular expression matchGlobPattern builds, as a sequence of items:
\* "**" becomes `.*` ("any"), a remaining "*" becomes `[^/]*` ("seg"), "." is
\* escaped and every other character of the modelled patterns stands for
\* itself (<<"lit", c>>).
RECURSIVE GlobToRegex(_)
GlobToRegex(pattern) ==
    IF pattern = <<>> THEN <<>>
    ELSE IF Len(pattern) >= 2 /\ pattern[1] = "*" /\ pattern[2] = "*"
         THEN <<<<"any", "">>>> \o GlobToRegex(SubSeq(pattern, 3, Len(pattern)))
         ELSE IF pattern[1] = "*"
              THEN <<<<"seg", "">>>> \o GlobToRegex(Tail(pattern))
              ELSE <<<<"lit", pattern[1]>>>> \o GlobToRegex(Tail(pattern))

\* regex.test(path) for the anchored expression ^items$
RECURSIVE RegexTest(_, _)
RegexTest(items, path) ==
    IF items = <<>> THEN path = <<>>
    ELSE LET item == Head(items) IN
         IF item[1] = "lit"
         THEN path # <<>> /\ Head(path) = item[2] /\ RegexTest(Tail(items), Tail(path))
         ELSE \E n \in 0..Len(path) :
                /\ item[1] = "seg" => \A k \in 1..n : path[k] # "/"
                /\ RegexTest(Tail(items), SubSeq(path, n + 1, Len(path)))

matchGlobPattern(path, pattern) == RegexTest(GlobToRegex(pattern), path)

shouldExcludeFile(filePath, cfg) ==
    \E k \in 1..Len(cfg.exclude) :
        matchGlobPattern(asRelativePath(filePath), cfg.exclude[k])

-----------------------------------------------------------------------------
(* Inputs of the edit synthesizer *)

\* files of the workspace (document.uri.fsPath)
\* /w/app.py
AppPy == <<"/", "w", "/", "a", "p", "p", ".", "p", "y">>
\* /w/src/tests/t.py
TestPy == <<"/", "w", "/", "s", "r", "c", "/", "t", "e", "s", "t", "s", "/", "t", ".", "p", "y">>
\* /w/notes.md
NotesMd == <<"/", "w", "/", "n", "o", "t", "e", "s", ".", "m", "d">>

Files == {TestPy, NotesMd}

\* exception class names
A == <<"A">>
B == <<"B">>
NotFoundException ==
    <<"N", "o", "t", "F", "o", "u", "n", "d", "E", "x", "c", "e", "p", "t", "i", "o", "n">>

Names == {A, B, NotFoundException}

\* lines on which a declaring call starts
FirstLines ==
    { \* @router.get("/x", exceptions=[A])
      <<"@", "r", "o", "u", "t", "e", "r", ".", "g", "e", "t", "(", "\"", "/", "x", "\"", ",", " ", "e", "x", "c", "e", "p", "t", "i", "o", "n", "s", "=", "[", "A", "]", ")">>,
      \* @router.get("/x")
      <<"@", "r", "o", "u", "t", "e", "r", ".", "g", "e", "t", "(", "\"", "/", "x", "\"", ")">>,
      \* @router.get(
      <<"@", "r", "o", "u", "t", "e", "r", ".", "g", "e", "t", "(">>,
      \* @router.get("/exceptions", exceptions=[A])
      <<"@", "r", "o", "u", "t", "e", "r", ".", "g", "e", "t", "(", "\"", "/", "e", "x", "c", "e", "p", "t", "i", "o", "n", "s", "\"", ",", " ", "e", "x", "c", "e", "p", "t", "i", "o", "n", "s", "=", "[", "A", "]", ")">>,
      \* @router.get("/x(1)",
      <<"@", "r", "o", "u", "t", "e", "r", ".", "g", "e", "t", "(", "\"", "/", "x", "(", "1", ")", "\"", ",">>,
      \* @router.get("C:\\", tags=[")"],
      <<"@", "r", "o", "u", "t", "e", "r", ".", "g", "e", "t", "(", "\"", "C", ":", "\\", "\\", "\"", ",", " ", "t", "a", "g", "s", "=", "[", "\"", ")", "\"", "]", ",">>,
      \* @router.get(f(),
      <<"@", "r", "o", "u", "t", "e", "r", ".", "g", "e", "t", "(", "f", "(", ")", ",">>,
      \* @router.get("/a\")",
      <<"@", "r", "o", "u", "t", "e", "r", ".", "g", "e", "t", "(", "\"", "/", "a", "\\", "\"", ")", "\"", ",">> }

\* lines that may follow the first line
ContLines ==
    { \*     "/x"
      <<" ", " ", " ", " ", "\"", "/", "x", "\"">>,
      \* )
      <<")">>,
      \* )  # :)
      <<")", " ", " ", "#", " ", ":", ")">>,
      \*     exceptions = [A],
      <<" ", " ", " ", " ", "e", "x", "c", "e", "p", "t", "i", "o", "n", "s", " ", "=", " ", "[", "A", "]", ",">>,
      \*     exceptions=[
      <<" ", " ", " ", " ", "e", "x", "c", "e", "p", "t", "i", "o", "n", "s", "=", "[">> }

\* sequences over S of length at most n
RECURSIVE SeqsUpTo(_, _)
SeqsUpTo(S, n) ==
    IF n = 0 THEN {<<>>}
    ELSE LET shorter == SeqsUpTo(S, n - 1)
         IN shorter \cup {Append(q, x) : q \in shorter, x \in S}

\* declared_exceptions lists the tool reports
ToolDeclared == {<<>>, <<A>>}

\* undeclared_exceptions lists the tool reports: one entry per raise site, so
\* the same class can occur at two sites
ToolUndeclared ==
    { <<[class |-> B, line |-> 7]>>,
      <<[class |-> NotFoundException, line |-> 7]>>,
      <<[class |-> B, line |-> 7], [class |-> B, line |-> 9]>>,
      <<[class |-> B, line |-> 7], [class |-> NotFoundException, line |-> 9]>> }

\* FaexEndpoint records of the tool's JSON for the document
FaexEndpoints(document) ==
    [ file : {AppPy},
      line : 1..Len(document),
      declared_exceptions : ToolDeclared,
      undeclared_exceptions : ToolUndeclared ]

\* EndpointInfo records a caller of createAddExceptionEdit can build itself:
\* the optional exceptionsLine may be present
DirectEndpoints(document) ==
    [ file : {AppPy},
      line : {1},
      decoratorLine : {1},
      exceptionsLine : {None} \cup {Some(n) : n \in 1..Len(document)},
      declaredExceptions : {<<>>, <<A>>, <<A, B>>},
      detectedExceptions : {<<>>},
      undeclaredExceptions : {None} ]

-----------------------------------------------------------------------------
(* Inputs of the analysis life cycle *)

\* the order of vscode.workspace.textDocuments
FileOrder == <<TestPy, NotesMd>>

languageId(p) == IF p = NotesMd THEN "markdown" ELSE "python"

\* **/tests/**
TestsPattern == <<"*", "*", "/", "t", "e", "s", "t", "s", "/", "*", "*">>

\* values of the faex.* settings
Configs ==
    [ enable : BOOLEAN,
      exclude : {<<>>, <<TestsPattern>>},
      validateOnSave : BOOLEAN ]

DefaultConfig == [enable |-> TRUE, exclude |-> <<>>, validateOnSave |-> TRUE]

\* endpoints arrays of the tool's JSON output for a file: one endpoint with an
\* undeclared exception raised at line 2, or one whose raise site has line 0
JsonEndpoints(p) ==
    { <<[ file |-> p, line |-> 1, declared_exceptions |-> <<A>>,
          undeclared_exceptions |-> <<[class |-> B, line |-> 2]>> ]>>,
      <<[ file |-> p, line |-> 1, declared_exceptions |-> <<>>,
          undeclared_exceptions |-> <<[class |-> B, line |-> 0]>> ]>>,
      \* two endpoints without undeclared exceptions, one of which declares A
      <<[ file |-> p, line |-> 1, declared_exceptions |-> <<>>,
          undeclared_exceptions |-> <<>> ],
        [ file |-> p, line |-> 3, declared_exceptions |-> <<A>>,
          undeclared_exceptions |-> <<>> ]>> }

\* what the subprocess can leave on standard output
Stdouts(p) ==
    {[kind |-> "empty", endpoints |-> <<>>], [kind |-> "garbage", endpoints |-> <<>>]}
        \cup {[kind |-> "json", endpoints |-> e] : e \in JsonEndpoints(p)}

NoMessages == [toolNotFound |-> 0, runFailed |-> 0]

NoRequest == [path |-> <<>>, outcome |-> "none", id |-> 0]

InitLifeWith(cfg, installed) ==
    /\ toolInstalled = installed
    /\ config = cfg
    /\ docs = [p \in Files |-> [open |-> FALSE, dirty |-> FALSE]]
    /\ ext = "inactive"
    /\ capturedConfig = None
    /\ analysisInProgress = {}
    /\ endpointCache = [p \in Files |-> None]
    /\ diagnostics = [p \in Files |-> None]
    /\ analyzerCache = [p \in Files |-> None]
    /\ calls = {}
    /\ loops = {}
    /\ wsRunning = 0
    /\ uninvoked = [p \in Files |-> 0]
    /\ droppedNow = {}
    /\ messages = NoMessages
    /\ errorsShown = 0
    /\ evicted = {}
    /\ codeLenses = None
    /\ lastClose = None
    /\ checkReport = None

-----------------------------------------------------------------------------
(* SpecRecord: the helpers of types.ts applied to bounded endpoint records *)

NoExclusionRun ==
    /\ target = None
    /\ excludeResult = None
    /\ excludeRun = None

NoRecord ==
    /\ rec = None
    /\ undeclaredResult = None
    /\ unusedResult = None

\* ExceptionLocation records
Occurrences == [exceptionClass : Names, line : {7, 9}]

\* EndpointInfo records: the undeclared list of the tool is absent, empty or
\* has one entry
Records ==
    [ file : {AppPy},
      line : {1},
      decoratorLine : {1},
      exceptionsLine : {None},
      declaredExceptions : SeqsUpTo(Names, MaxDeclared),
      detectedExceptions : SeqsUpTo(Occurrences, MaxOccurrences),
      undeclaredExceptions : {None} \cup {Some(l) : l \in SeqsUpTo(Occurrences, 1)} ]

InitRecord ==
    /\ rec \in {Some(r) : r \in Records}
    /\ undeclaredResult = None
    /\ unusedResult = None
    /\ doc = <<>>
    /\ endpoint = None
    /\ origin = "none"
    /\ requested = <<>>
    /\ edit = EmptyEdit
    /\ endLine = None
    /\ phase = "typing"
    /\ InitLifeWith(DefaultConfig, TRUE)
    /\ NoExclusionRun

CallGetUndeclared ==
    /\ undeclaredResult = None
    /\ undeclaredResult' = Some(getUndeclaredExceptions(rec[1]))
    /\ UNCHANGED <<rec, unusedResult, editVars, lifeVars, exclVars>>

CallGetUnused ==
    /\ unusedResult = None
    /\ unusedResult' = Some(getUnusedDeclarations(rec[1]))
    /\ UNCHANGED <<rec, undeclaredResult, editVars, lifeVars, exclVars>>

NextRecord ==
    \/ CallGetUndeclared
    \/ CallGetUnused

SpecRecord == InitRecord /\ [][NextRecord]_vars

-----------------------------------------------------------------------------
(* SpecEdit: the edit synthesizer applied to bounded inputs *)

InitEdit ==
    /\ doc = <<>>
    /\ endpoint = None
    /\ origin = "none"
    /\ requested = <<>>
    /\ edit = EmptyEdit
    /\ endLine = None
    /\ phase = "typing"
    /\ InitLifeWith(DefaultConfig, TRUE)
    /\ NoRecord
    /\ NoExclusionRun

\* the user types the line on which the declaring call starts
TypeFirstLine(l) ==
    /\ phase = "typing"
    /\ doc = <<>>
    /\ doc' = <<l>>
    /\ UNCHANGED <<endpoint, origin, requested, edit, endLine, phase>>
    /\ UNCHANGED <<lifeVars, recVars, exclVars>>

\* the user types a further line
TypeContLine(l) ==
    /\ phase = "typing"
    /\ doc # <<>>
    /\ Len(doc) < 1 + MaxCont
    /\ doc' = Append(doc, l)
    /\ UNCHANGED <<endpoint, origin, requested, edit, endLine, phase>>
    /\ UNCHANGED <<lifeVars, recVars, exclVars>>

\* EndpointAnalyzer.analyzeDocument: result.endpoints.map(convertEndpoint)
Analyze(fe) ==
    /\ phase = "typing"
    /\ doc # <<>>
    /\ endpoint' = Some(convertEndpoint(fe))
    /\ origin' = "analysis"
    /\ phase' = "analyzed"
    /\ UNCHANGED <<doc, requested, edit, endLine>>
    /\ UNCHANGED <<lifeVars, recVars, exclVars>>

\* an EndpointInfo record handed to the synthesizer by a caller
DirectEndpoint(ep) ==
    /\ phase = "typing"
    /\ doc # <<>>
    /\ endpoint' = Some(ep)
    /\ origin' = "direct"
    /\ phase' = "analyzed"
    /\ UNCHANGED <<doc, requested, edit, endLine>>
    /\ UNCHANGED <<lifeVars, recVars, exclVars>>

\* what createAddExceptionEdit leaves in the state
ApplyCreateEdit(newExceptions) ==
    /\ requested' = newExceptions
    /\ edit' = createAddExceptionEdit(doc, endpoint[1], newExceptions)
    /\ endLine' = IF endpoint[1].exceptionsLine = None
                  THEN Some(findDecoratorEndLine(doc, endpoint[1].decoratorLine - 1))
                  ELSE None
    /\ phase' = "fixed"
    /\ UNCHANGED <<doc, endpoint, origin>>
    /\ UNCHANGED <<lifeVars, recVars, exclVars>>

\* provideCodeActions + createAddExceptionAction: the action that adds the
\* k-th undeclared exception of the endpoint
QuickFixOne(k) ==
    /\ phase = "analyzed"
    /\ origin = "analysis"
    /\ k \in 1..Len(getUndeclaredExceptions(endpoint[1]))
    /\ ApplyCreateEdit(<<getUndeclaredExceptions(endpoint[1])[k].exceptionClass>>)

\* provideCodeActions + createAddAllExceptionsAction (undeclared.length > 1)
QuickFixAll ==
    /\ phase = "analyzed"
    /\ origin = "analysis"
    /\ Len(getUndeclaredExceptions(endpoint[1])) > 1
    /\ LET undeclared == getUndeclaredExceptions(endpoint[1])
       IN ApplyCreateEdit([k \in 1..Len(undeclared) |-> undeclared[k].exceptionClass])

\* createAddExceptionEdit called with a caller-built record and add-list
CallCreateEdit(newExceptions) ==
    /\ phase = "analyzed"
    /\ origin = "direct"
    /\ ApplyCreateEdit(newExceptions)

NextEdit ==
    \/ \E l \in FirstLines : TypeFirstLine(l)
    \/ \E l \in ContLines : TypeContLine(l)
    \/ \E fe \in FaexEndpoints(doc) : Analyze(fe)
    \/ \E ep \in DirectEndpoints(doc) : DirectEndpoint(ep)
    \/ \E k \in 1..2 : QuickFixOne(k)
    \/ QuickFixAll
    \/ \E n \in SeqsUpTo(Names, MaxNew) : CallCreateEdit(n)

SpecEdit == InitEdit /\ [][NextEdit]_vars

TypeOKEdit ==
    /\ phase \in {"typing", "analyzed", "fixed"}
    /\ edit.kind \in {"none", "replace", "insert"}

-----------------------------------------------------------------------------
(* providers/diagnostics.ts and analyzer/analyzer.ts: the manager's state    *)
(* as one record, so that a handler's calls compose inside one step          *)

Mgr ==
    [ inProgress  |-> analysisInProgress,
      ec          |-> endpointCache,
      dg          |-> diagnostics,
      ac          |-> analyzerCache,
      calls       |-> calls,
      uninvoked   |-> uninvoked,
      msgs        |-> NoMessages,   \* the notifications of the running step
      errors      |-> errorsShown,
      evicted     |-> evicted,
      lastRequest |-> NoRequest,    \* the latest request of the running step
      dropped     |-> {} ]          \* the requests the running step has dropped

SetMgr(m) ==
    /\ analysisInProgress' = m.inProgress
    /\ endpointCache' = m.ec
    /\ diagnostics' = m.dg
    /\ analyzerCache' = m.ac
    /\ calls' = m.calls
    /\ uninvoked' = m.uninvoked
    /\ droppedNow' = m.dropped
    /\ messages' = m.msgs
    /\ errorsShown' = m.errors
    /\ evicted' = m.evicted

\* DiagnosticsManager.clearDiagnostics
clearDiagnostics(m, p) == [m EXCEPT !.dg[p] = None, !.ec[p] = None]

\* DiagnosticsManager.clearAllDiagnostics
clearAllDiagnostics(m) ==
    [m EXCEPT !.dg = [q \in Files |-> None], !.ec = [q \in Files |-> None]]

\* DiagnosticsManager.getEndpoints: endpointCache.get(filePath) || []
getEndpoints(m, p) == IF m.ec[p] = None THEN <<>> ELSE m.ec[p][1]

\* DiagnosticsManager.getDiagnostics: diagnosticCollection.get(uri) || []
getDiagnostics(m, p) == IF m.dg[p] = None THEN <<>> ELSE m.dg[p][1]

\* the title is the check mark as soon as nothing is undeclared
provideCodeLensesIgnoringUnused(m, p, cfg, showCodeLens) ==
    IF ~cfg.enable \/ ~showCodeLens THEN <<>>
    ELSE LET endpoints == getEndpoints(m, p) IN
         [ k \in 1..Len(endpoints) |->
             LET undeclared == getUndeclaredExceptions(endpoints[k])
                 unused     == getUnusedDeclarations(endpoints[k])
             IN [ title         |-> IF Len(undeclared) = 0
                                    THEN "allGood" ELSE "issues",
                  totalDeclared |-> Len(endpoints[k].declaredExceptions),
                  totalDetected |-> Len(endpoints[k].detectedExceptions),
                  undeclared    |-> Len(undeclared),
                  unused        |-> Len(unused),
                  endpoint      |-> endpoints[k] ] ]

\* CodeLensProvider.provideCodeLenses: one summary lens per endpoint of
\* getEndpoints(fsPath); the title is the check mark ("allGood") when both
\* lists are empty and the warning ("issues") with the two counts otherwise
provideCodeLenses(m, p, cfg, showCodeLens) ==
    IF ~cfg.enable \/ ~showCodeLens THEN <<>>
    ELSE LET endpoints == getEndpoints(m, p) IN
         [ k \in 1..Len(endpoints) |->
             LET undeclared == getUndeclaredExceptions(endpoints[k])
                 unused     == getUnusedDeclarations(endpoints[k])
             IN [ title         |-> IF Len(undeclared) = 0 /\ Len(unused) = 0
                                    THEN "allGood" ELSE "issues",
                  totalDeclared |-> Len(endpoints[k].declaredExceptions),
                  totalDetected |-> Len(endpoints[k].detectedExceptions),
                  undeclared    |-> Len(undeclared),
                  unused        |-> Len(unused),
                  endpoint      |-> endpoints[k] ] ]

\* the smallest call id not used by a suspended call
FreshId(cs) == CHOOSE i \in 1..(Cardinality(cs) + 1) :
                  /\ \A c \in cs : c.id # i
                  /\ \A j \in 1..(i - 1) : \E c \in cs : c.id = j

\* the guard left out: every request passes
InProgressGuardOmitted(m, p) == FALSE

\* the guard that lets a request through to analysisInProgress.add
InProgressGuard(m, p) == p \in m.inProgress

\* where DiagnosticsManager.analyzeDocument leaves through its early returns
RequestOutcome(m, p, cfg) ==
    IF ~cfg.enable THEN "disabled"
    ELSE IF languageId(p) # "python" THEN "notPython"
    ELSE IF shouldExcludeFile(p, cfg) THEN "excluded"
    ELSE IF InProgressGuard(m, p) THEN "dropped"
    ELSE "accepted"

\* a request that finds its path in progress restarts the analysis: the tool is
\* spawned once more for the call in flight
RequestRestarts(m, p, cfg, dirty) ==
    LET out == RequestOutcome(m, p, cfg)
        id  == IF out = "accepted" THEN FreshId(m.calls) ELSE 0
        m1  == [m EXCEPT !.lastRequest = [path |-> p, outcome |-> out, id |-> id],
                         !.dropped = IF out = "dropped" THEN @ \cup {p} ELSE @]
    IN  IF out = "excluded" THEN clearDiagnostics(m1, p)
        ELSE IF out = "dropped"
        THEN [m1 EXCEPT !.uninvoked[p] = @ - 1,
                        !.calls = {IF c.path = p THEN [c EXCEPT !.pc = "running"] ELSE c
                                      : c \in @}]
        ELSE IF out = "accepted"
        THEN [m1 EXCEPT !.inProgress = @ \cup {p},
                        !.evicted = @ \ {p},
                        !.uninvoked[p] = IF dirty THEN @ + 1 ELSE @ + 1 - 1,
                        !.calls = @ \cup {[id |-> id, path |-> p,
                                           pc |-> IF dirty THEN "saving" ELSE "running"]}]
        ELSE m1

\* DiagnosticsManager.analyzeDocument up to its first await.  An accepted
\* request adds the path to analysisInProgress and enters
\* EndpointAnalyzer.analyzeDocument, which awaits document.save() for a dirty
\* document and otherwise calls runFaexCli (spawn) at once.  The exclusion test
\* at the top of EndpointAnalyzer.analyzeDocument repeats the manager's test
\* under the same settings and never succeeds there.
Request(m, p, cfg, dirty) ==
    LET out == RequestOutcome(m, p, cfg)
        id  == IF out = "accepted" THEN FreshId(m.calls) ELSE 0
        m1  == [m EXCEPT !.lastRequest = [path |-> p, outcome |-> out, id |-> id],
                         !.dropped = IF out = "dropped" THEN @ \cup {p} ELSE @]
    IN  IF out = "excluded" THEN clearDiagnostics(m1, p)
        ELSE IF out = "accepted"
        THEN IF dirty
             THEN [m1 EXCEPT !.inProgress = @ \cup {p},
                             !.evicted = @ \ {p},
                             !.uninvoked[p] = @ + 1,
                             !.calls = @ \cup {[id |-> id, path |-> p, pc |-> "saving"]}]
             ELSE [m1 EXCEPT !.inProgress = @ \cup {p},
                             !.evicted = @ \ {p},
                             !.uninvoked[p] = @ + 1 - 1,
                             !.calls = @ \cup {[id |-> id, path |-> p, pc |-> "running"]}]
        ELSE m1

\* the documents of vscode.workspace.textDocuments, in order
RECURSIVE OpenDocsFrom(_, _)
OpenDocsFrom(order, dz) ==
    IF order = <<>> THEN <<>>
    ELSE IF dz[Head(order)].open
         THEN <<Head(order)>> \o OpenDocsFrom(Tail(order), dz)
         ELSE OpenDocsFrom(Tail(order), dz)

\* `for (const document of ...) if (languageId === "python") await
\* analyzeDocument(document)`: the loop runs until a request is accepted, where
\* it is suspended on that call, or until the documents are exhausted
RECURSIVE RunLoop(_, _, _, _, _)
RunLoop(m, kind, todo, cfg, dz) ==
    IF todo = <<>> THEN [m |-> m, suspended |-> {}, finished |-> TRUE]
    ELSE IF languageId(Head(todo)) # "python"
         THEN RunLoop(m, kind, Tail(todo), cfg, dz)
         ELSE LET m1 == Request(m, Head(todo), cfg, dz[Head(todo)].dirty) IN
              IF m1.lastRequest.outcome = "accepted"
              THEN [ m |-> m1,
                     suspended |-> {[ kind |-> kind, todo |-> Tail(todo),
                                      waiting |-> m1.lastRequest.id ]},
                     finished |-> FALSE ]
              ELSE RunLoop(m1, kind, Tail(todo), cfg, dz)

\* createDiagnostic: document.lineAt(exception.line - 1) is evaluated for every
\* line index below lineCount and throws for a negative index
createDiagnosticThrows(exception) == exception.line - 1 < 0

\* the diagnostics of analyzeDocument: one per undeclared exception, with the
\* metadata the quick fix reads
RECURSIVE DiagnosticsOf(_)
DiagnosticsOf(endpoints) ==
    IF endpoints = <<>> THEN <<>>
    ELSE LET ep == Head(endpoints)
             undeclared == getUndeclaredExceptions(ep)
         IN [k \in 1..Len(undeclared) |-> [endpoint |-> ep, exception |-> undeclared[k]]]
              \o DiagnosticsOf(Tail(endpoints))

DiagnosticsThrow(endpoints) ==
    \E k \in 1..Len(DiagnosticsOf(endpoints)) :
        createDiagnosticThrows(DiagnosticsOf(endpoints)[k].exception)

\* a nonzero exit code is taken as a failure of the run
ParseStdoutOnSuccess(code, stdout) ==
    IF code = 0 /\ stdout.kind = "json" THEN Some(stdout.endpoints) ELSE None

\* runFaexCli's close handler: non-empty standard output is parsed as JSON;
\* the exit code is not looked at
ParseStdout(code, stdout) ==
    IF stdout.kind = "json" THEN Some(stdout.endpoints) ELSE None

\* what EndpointAnalyzer.analyzeDocument returns once runFaexCli has resolved
\* with result: the modelled outputs of the tool carry no error strings
AnalysisResult(result) ==
    IF result = None
    THEN [endpoints |-> <<>>, errors |-> <<>>]
    ELSE [ endpoints |-> [k \in 1..Len(result[1]) |-> convertEndpoint(result[1][k])],
           errors    |-> <<>> ]

\* runFaexCli's error handler: console.error, showErrorMessage, resolve(null)
ShowError(m) ==
    [m EXCEPT !.msgs.runFailed = @ + 1,
              !.errors = IF @ < MaxNotices THEN @ + 1 ELSE @]

\* the `finally` of DiagnosticsManager.analyzeDocument
Finally(m, c) == [m EXCEPT !.inProgress = @ \ {c.path}, !.calls = @ \ {c}]

\* the path is deleted after the diagnostics are set instead of in a `finally`:
\* a throwing createDiagnostic leaves it in the set
CompleteWithoutFinally(m, c, result) ==
    LET p == c.path
        endpoints == IF result = None THEN <<>>
                     ELSE [k \in 1..Len(result[1]) |-> convertEndpoint(result[1][k])]
        m1 == IF result = None THEN m ELSE [m EXCEPT !.ac[p] = Some(endpoints)]
        m2 == [m1 EXCEPT !.ec[p] = Some(endpoints)]
    IN IF DiagnosticsThrow(endpoints) THEN [m2 EXCEPT !.calls = @ \ {c}]
       ELSE Finally([m2 EXCEPT !.dg[p] = Some(DiagnosticsOf(endpoints))], c)

\* The rest of EndpointAnalyzer.analyzeDocument and of
\* DiagnosticsManager.analyzeDocument once runFaexCli has resolved with
\* result (<<>> for null, else <<endpoints of the JSON>>)
Complete(m, c, result) ==
    LET p == c.path
        endpoints == IF result = None THEN <<>>
                     ELSE [k \in 1..Len(result[1]) |-> convertEndpoint(result[1][k])]
        m1 == IF result = None THEN m ELSE [m EXCEPT !.ac[p] = Some(endpoints)]
        m2 == [m1 EXCEPT !.ec[p] = Some(endpoints)]
        m3 == IF DiagnosticsThrow(endpoints) THEN m2
              ELSE [m2 EXCEPT !.dg[p] = Some(DiagnosticsOf(endpoints))]
    IN Finally(m3, c)

CompleteThrows(result) ==
    /\ result # None
    /\ DiagnosticsThrow([k \in 1..Len(result[1]) |-> convertEndpoint(result[1][k])])

-----------------------------------------------------------------------------
(* SpecExclude: the first analysis request of a document under bounded
   exclusion settings *)

\* **/test_*.py
TestFilesPattern == <<"*", "*", "/", "t", "e", "s", "t", "_", "*", ".", "p", "y">>

\* /w/tests/t.py
TopTestPy == <<"/", "w", "/", "t", "e", "s", "t", "s", "/", "t", ".", "p", "y">>
\* /w/tests/unit/t.py
TopUnitTestPy ==
    <<"/", "w", "/", "t", "e", "s", "t", "s", "/", "u", "n", "i", "t", "/", "t", ".", "p", "y">>
\* /w/src/tests.py
TestsModulePy == <<"/", "w", "/", "s", "r", "c", "/", "t", "e", "s", "t", "s", ".", "p", "y">>
\* /w/src/mytests/t.py
MyTestsPy ==
    <<"/", "w", "/", "s", "r", "c", "/", "m", "y", "t", "e", "s", "t", "s", "/", "t", ".", "p", "y">>
\* /x/tests/t.py, outside the workspace folder
OutsideTestPy == <<"/", "x", "/", "t", "e", "s", "t", "s", "/", "t", ".", "p", "y">>
\* /w/src/test_a.py
TestAPy == <<"/", "w", "/", "s", "r", "c", "/", "t", "e", "s", "t", "_", "a", ".", "p", "y">>

ExcludePaths ==
    {AppPy, TestPy, TopTestPy, TopUnitTestPy, TestsModulePy, MyTestsPy, OutsideTestPy, TestAPy}

\* values of the faex.* settings, with every combination of the two default
\* exclusion patterns
ExcludeConfigs ==
    [ enable : BOOLEAN,
      exclude : {<<>>, <<TestsPattern>>, <<TestFilesPattern>>,
                 <<TestsPattern, TestFilesPattern>>},
      validateOnSave : BOOLEAN ]

\* the DiagnosticsManager as constructed, for the documents of paths
NewManager(paths) ==
    [ inProgress  |-> {},
      ec          |-> [p \in paths |-> None],
      dg          |-> [p \in paths |-> None],
      ac          |-> [p \in paths |-> None],
      calls       |-> {},
      uninvoked   |-> [p \in paths |-> 0],
      msgs        |-> NoMessages,
      errors      |-> 0,
      evicted     |-> {},
      lastRequest |-> NoRequest,
      dropped     |-> {} ]

InitExclude ==
    /\ target \in {Some(p) : p \in ExcludePaths}
    /\ excludeResult = None
    /\ excludeRun = None
    /\ \E cfg \in ExcludeConfigs : InitLifeWith(cfg, TRUE)
    /\ doc = <<>>
    /\ endpoint = None
    /\ origin = "none"
    /\ requested = <<>>
    /\ edit = EmptyEdit
    /\ endLine = None
    /\ phase = "typing"
    /\ NoRecord

CallShouldExclude ==
    /\ excludeResult = None
    /\ excludeResult' = Some(shouldExcludeFile(target[1], config))
    /\ UNCHANGED <<target, excludeRun, editVars, lifeVars, recVars>>

\* DiagnosticsManager.analyzeDocument on the clean document of the path, up
\* to its first await
AnalyzeTarget ==
    /\ excludeRun = None
    /\ LET p == target[1]
           m == Request(NewManager(ExcludePaths), p, config, FALSE)
       IN  excludeRun' = Some([ path        |-> p,
                                outcome     |-> m.lastRequest.outcome,
                                invocations |-> Cardinality({c \in m.calls : c.path = p}),
                                diagnostics |-> m.dg[p],
                                cache       |-> m.ec[p] ])
    /\ UNCHANGED <<target, excludeResult, editVars, lifeVars, recVars>>

NextExclude ==
    \/ CallShouldExclude
    \/ AnalyzeTarget

SpecExclude == InitExclude /\ [][NextExclude]_vars

-----------------------------------------------------------------------------
(* Spec: extension.ts (activate), commands.ts and the events of the editor   *)

\* registerCommands has run
CommandsRegistered == ext \in {"activating", "active", "failed"}

\* the onDidSaveTextDocument handler is registered (config.validateOnSave)
SaveHandlerRegistered ==
    /\ ext \in {"activating", "active", "failed"}
    /\ capturedConfig # None
    /\ capturedConfig[1]

\* the open, close and configuration handlers are registered after the
\* activation loop
LateHandlersRegistered == ext = "active"

\* the manager's variables are left alone
MgrUnchanged ==
    /\ UNCHANGED <<analysisInProgress, endpointCache, diagnostics, analyzerCache,
                   calls, uninvoked, errorsShown, evicted>>
    /\ droppedNow' = {}
    /\ messages' = NoMessages

Init ==
    /\ \E cfg \in Configs, installed \in BOOLEAN : InitLifeWith(cfg, installed)
    /\ doc = <<>>
    /\ endpoint = None
    /\ origin = "none"
    /\ requested = <<>>
    /\ edit = EmptyEdit
    /\ endLine = None
    /\ phase = "typing"
    /\ NoRecord
    /\ NoExclusionRun

\* activate() up to `await isFaexAvailable()`
Activate ==
    /\ ext = "inactive"
    /\ capturedConfig' = Some(config.validateOnSave)
    /\ ext' = IF config.enable THEN "probing" ELSE "disabled"
    /\ MgrUnchanged
    /\ checkReport' = None
    /\ lastClose' = None
    /\ codeLenses' = None
    /\ UNCHANGED <<config, docs, loops, wsRunning, toolInstalled>>
    /\ UNCHANGED <<editVars, recVars, exclVars>>

\* activate() after the probe: warning, manager, providers, commands, save
\* handler, and the loop over the open documents
ProbeDone ==
    /\ ext = "probing"
    /\ LET m0 == IF toolInstalled THEN Mgr
                 ELSE [Mgr EXCEPT !.msgs.toolNotFound = @ + 1]
           r  == RunLoop(m0, "activate", OpenDocsFrom(FileOrder, docs), config, docs)
       IN /\ SetMgr(r.m)
          /\ loops' = loops \cup r.suspended
          /\ ext' = IF r.finished THEN "active" ELSE "activating"
    /\ checkReport' = None
    /\ lastClose' = None
    /\ codeLenses' = None
    /\ UNCHANGED <<config, docs, capturedConfig, wsRunning, toolInstalled>>
    /\ UNCHANGED <<editVars, recVars, exclVars>>

\* onDidOpenTextDocument
OpenDoc(p) ==
    /\ ~docs[p].open
    /\ docs' = [docs EXCEPT ![p] = [open |-> TRUE, dirty |-> FALSE]]
    /\ IF LateHandlersRegistered /\ languageId(p) = "python"
       THEN SetMgr(Request(Mgr, p, config, FALSE))
       ELSE SetMgr(Mgr)
    /\ checkReport' = None
    /\ lastClose' = None
    /\ codeLenses' = None
    /\ UNCHANGED <<config, ext, capturedConfig, loops, wsRunning, toolInstalled>>
    /\ UNCHANGED <<editVars, recVars, exclVars>>

\* onDidCloseTextDocument
CloseDoc(p) ==
    /\ docs[p].open
    /\ docs' = [docs EXCEPT ![p] = [open |-> FALSE, dirty |-> FALSE]]
    /\ IF LateHandlersRegistered
       THEN SetMgr([clearDiagnostics(Mgr, p) EXCEPT
                       !.evicted = IF p \in Mgr.inProgress THEN @ \cup {p} ELSE @])
       ELSE SetMgr(Mgr)
    /\ checkReport' = None
    /\ lastClose' = None
    /\ codeLenses' = None
    /\ UNCHANGED <<config, ext, capturedConfig, loops, wsRunning, toolInstalled>>
    /\ UNCHANGED <<editVars, recVars, exclVars>>

\* the user edits an open document
EditDoc(p) ==
    /\ docs[p].open
    /\ ~docs[p].dirty
    /\ docs' = [docs EXCEPT ![p].dirty = TRUE]
    /\ MgrUnchanged
    /\ checkReport' = None
    /\ lastClose' = None
    /\ codeLenses' = None
    /\ UNCHANGED <<config, ext, capturedConfig, loops, wsRunning, toolInstalled>>
    /\ UNCHANGED <<editVars, recVars, exclVars>>

\* the user saves an open document: onDidSaveTextDocument
UserSave(p) ==
    /\ docs[p].open
    /\ docs' = [docs EXCEPT ![p].dirty = FALSE]
    /\ IF SaveHandlerRegistered /\ languageId(p) = "python"
       THEN SetMgr(Request(Mgr, p, config, FALSE))
       ELSE SetMgr(Mgr)
    /\ checkReport' = None
    /\ lastClose' = None
    /\ codeLenses' = None
    /\ UNCHANGED <<config, ext, capturedConfig, loops, wsRunning, toolInstalled>>
    /\ UNCHANGED <<editVars, recVars, exclVars>>

\* onConfigChange: a faex.* setting changes
ConfigChange(newConfig) ==
    /\ newConfig # config
    /\ newConfig.validateOnSave = config.validateOnSave
    /\ config' = newConfig
    /\ IF ~LateHandlersRegistered
       THEN SetMgr(Mgr) /\ loops' = loops
       ELSE IF ~newConfig.enable
            THEN SetMgr(clearAllDiagnostics(Mgr)) /\ loops' = loops
            ELSE LET r == RunLoop(Mgr, "config", OpenDocsFrom(FileOrder, docs),
                                  newConfig, docs)
                 IN SetMgr(r.m) /\ loops' = loops \cup r.suspended
    /\ checkReport' = None
    /\ lastClose' = None
    /\ codeLenses' = None
    /\ UNCHANGED <<docs, ext, capturedConfig, wsRunning, toolInstalled>>
    /\ UNCHANGED <<editVars, recVars, exclVars>>

\* faex.checkCurrentFile with p in the active editor: analyzeDocument is
\* called without await and the diagnostics are read at once
CheckCurrentFile(p) ==
    /\ CommandsRegistered
    /\ docs[p].open
    /\ IF languageId(p) # "python"
       THEN /\ SetMgr(Mgr)
            /\ checkReport' = Some([path |-> p, kind |-> "notPython", count |-> 0, call |-> 0])
       ELSE LET m == Request(Mgr, p, config, docs[p].dirty)
            IN /\ SetMgr(m)
               /\ checkReport' = Some([ path |-> p, kind |-> "count",
                                        count |-> Len(getDiagnostics(m, p)),
                                        call |-> m.lastRequest.id ])
    /\ lastClose' = None
    /\ codeLenses' = None
    /\ UNCHANGED <<config, docs, ext, capturedConfig, loops, wsRunning, toolInstalled>>
    /\ UNCHANGED <<editVars, recVars, exclVars>>

\* the editor asks the registered CodeLensProvider for the lenses of an open
\* python document; showCodeLens is the value of the setting at the call
ProvideCodeLenses(p, showCodeLens) ==
    /\ CommandsRegistered
    /\ docs[p].open
    /\ languageId(p) = "python"
    /\ codeLenses' = Some([ path   |-> p,
                            lenses |-> provideCodeLenses(Mgr, p, config, showCodeLens) ])
    /\ MgrUnchanged
    /\ checkReport' = None
    /\ lastClose' = None
    /\ UNCHANGED <<config, docs, ext, capturedConfig, loops, wsRunning, toolInstalled>>
    /\ UNCHANGED <<editVars, recVars, exclVars>>

\* faex.checkWorkspace: analyzeWorkspace spawns the tool on the workspace folder
CheckWorkspace ==
    /\ CommandsRegistered
    /\ wsRunning = 0
    /\ wsRunning' = wsRunning + 1
    /\ MgrUnchanged
    /\ checkReport' = None
    /\ lastClose' = None
    /\ codeLenses' = None
    /\ UNCHANGED <<config, docs, ext, capturedConfig, loops, toolInstalled>>
    /\ UNCHANGED <<editVars, recVars, exclVars>>

\* analyzeWorkspace: `this.cache.set(file, eps)` for every file of the result
CacheByFile(m, endpoints) ==
    [m EXCEPT !.ac = [q \in Files |->
        IF \E k \in 1..Len(endpoints) : endpoints[k].file = q
        THEN Some(SelectSeq(endpoints, LAMBDA e : e.file = q))
        ELSE @[q]]]

\* The workspace run ends with result (<<>> for null): the result is cached
\* by file, then refreshAll() clears the manager and loops over the documents.
FinishWorkspace(m0, result) ==
    LET m1 == IF result = None THEN m0
              ELSE CacheByFile(m0, [k \in 1..Len(result[1]) |->
                                       convertEndpoint(result[1][k])])
        r  == RunLoop(clearAllDiagnostics(m1), "refresh",
                      OpenDocsFrom(FileOrder, docs), config, docs)
    IN SetMgr(r.m) /\ loops' = loops \cup r.suspended

\* the workspace subprocess closes
WorkspaceClose(code, stdout) ==
    /\ wsRunning > 0
    /\ toolInstalled
    /\ wsRunning' = wsRunning - 1
    /\ FinishWorkspace(Mgr, ParseStdout(code, stdout))
    /\ checkReport' = None
    /\ lastClose' = None
    /\ codeLenses' = None
    /\ UNCHANGED <<config, docs, ext, capturedConfig, toolInstalled>>
    /\ UNCHANGED <<editVars, recVars, exclVars>>

\* the workspace subprocess could not be spawned
WorkspaceError ==
    /\ wsRunning > 0
    /\ ~toolInstalled
    /\ wsRunning' = wsRunning - 1
    /\ FinishWorkspace(ShowError(Mgr), None)
    /\ checkReport' = None
    /\ lastClose' = None
    /\ codeLenses' = None
    /\ UNCHANGED <<config, docs, ext, capturedConfig, toolInstalled>>
    /\ UNCHANGED <<editVars, recVars, exclVars>>

\* `await document.save()` of EndpointAnalyzer.analyzeDocument: the document is
\* written and the save event reaches the handler before the call continues
SaveDone(c) ==
    /\ c \in calls
    /\ c.pc = "saving"
    /\ docs' = [docs EXCEPT ![c.path].dirty = FALSE]
    /\ LET m0 == [Mgr EXCEPT !.calls = (@ \ {c}) \cup {[c EXCEPT !.pc = "saved"]}]
       IN IF SaveHandlerRegistered /\ docs[c.path].open
          THEN SetMgr(Request(m0, c.path, config, FALSE))
          ELSE SetMgr(m0)
    /\ checkReport' = None
    /\ lastClose' = None
    /\ codeLenses' = None
    /\ UNCHANGED <<config, ext, capturedConfig, loops, wsRunning, toolInstalled>>
    /\ UNCHANGED <<editVars, recVars, exclVars>>

\* the call continues after the save: runFaexCli spawns the tool
Spawn(c) ==
    /\ c \in calls
    /\ c.pc = "saved"
    /\ calls' = (calls \ {c}) \cup {[c EXCEPT !.pc = "running"]}
    /\ uninvoked' = [uninvoked EXCEPT ![c.path] = @ - 1]
    /\ droppedNow' = {}
    /\ messages' = NoMessages
    /\ checkReport' = None
    /\ lastClose' = None
    /\ codeLenses' = None
    /\ UNCHANGED <<analysisInProgress, endpointCache, diagnostics, analyzerCache,
                   errorsShown, evicted>>
    /\ UNCHANGED <<config, docs, ext, capturedConfig, loops, wsRunning, toolInstalled>>
    /\ UNCHANGED <<editVars, recVars, exclVars>>

\* The analysis of call c ends with result; the loop awaiting it, if any,
\* goes on to its next document, or is abandoned when the call threw.
Finish(m0, c, result) ==
    LET m1 == Complete(m0, c, result)
        awaiting == {l \in loops : l.waiting = c.id}
    IN  IF awaiting = {}
        THEN SetMgr(m1) /\ loops' = loops /\ ext' = ext
        ELSE LET l == CHOOSE l \in awaiting : TRUE IN
             IF CompleteThrows(result)
             THEN /\ SetMgr(m1)
                  /\ loops' = loops \ {l}
                  /\ ext' = IF l.kind = "activate" THEN "failed" ELSE ext
             ELSE LET r == RunLoop(m1, l.kind, l.todo, config, docs)
                  IN /\ SetMgr(r.m)
                     /\ loops' = (loops \ {l}) \cup r.suspended
                     /\ ext' = IF l.kind = "activate" /\ r.finished
                               THEN "active" ELSE ext

\* the subprocess closes: runFaexCli resolves from its standard output
ProcessClose(c, code, stdout) ==
    /\ c \in calls
    /\ c.pc = "running"
    /\ toolInstalled
    /\ Finish(Mgr, c, ParseStdout(code, stdout))
    /\ checkReport' = None
    /\ lastClose' = Some([ path |-> c.path, code |-> code, stdout |-> stdout,
                           analysis |-> AnalysisResult(ParseStdout(code, stdout)) ])
    /\ codeLenses' = None
    /\ UNCHANGED <<config, docs, capturedConfig, wsRunning, toolInstalled>>
    /\ UNCHANGED <<editVars, recVars, exclVars>>

\* the subprocess could not be spawned: error message, runFaexCli resolves null
ProcessError(c) ==
    /\ c \in calls
    /\ c.pc = "running"
    /\ ~toolInstalled
    /\ Finish(ShowError(Mgr), c, None)
    /\ checkReport' = None
    /\ lastClose' = None
    /\ codeLenses' = None
    /\ UNCHANGED <<config, docs, capturedConfig, wsRunning, toolInstalled>>
    /\ UNCHANGED <<editVars, recVars, exclVars>>

Next ==
    \/ Activate
    \/ ProbeDone
    \/ \E p \in Files : OpenDoc(p)
    \/ \E p \in Files : CloseDoc(p)
    \/ \E p \in Files : EditDoc(p)
    \/ \E p \in Files : UserSave(p)
    \/ \E newConfig \in Configs : ConfigChange(newConfig)
    \/ \E p \in Files : CheckCurrentFile(p)
    \/ CheckWorkspace
    \/ \E code \in {0, 1}, stdout \in Stdouts(TestPy) : WorkspaceClose(code, stdout)
    \/ WorkspaceError
    \/ \E c \in calls : SaveDone(c)
    \/ \E c \in calls : Spawn(c)
    \/ \E c \in calls, code \in {0, 1} : \E stdout \in Stdouts(c.path) :
            ProcessClose(c, code, stdout)
    \/ \E c \in calls : ProcessError(c)
    \/ \E p \in Files, showCodeLens \in BOOLEAN : ProvideCodeLenses(p, showCodeLens)

Spec == Init /\ [][Next]_vars

TypeOK ==
    /\ config \in Configs
    /\ analysisInProgress \subseteq Files
    /\ ext \in {"inactive", "disabled", "probing", "activating", "active", "failed"}
    /\ \A c \in calls : c.pc \in {"saving", "saved", "running"}
    /\ wsRunning \in 0..1
    /\ droppedNow \subseteq Files
    /\ evicted \subseteq Files

-----------------------------------------------------------------------------
(* Properties of the edit synthesizer (checked under SpecEdit) *)

\* the endpoint and lines the finished quick fix was computed for
FixedEndpoint == endpoint[1]
DecoratorText == doc[FixedEndpoint.decoratorLine]
LineText(line) == doc[line + 1]

\* C1: when the declaring line already holds an `exceptions=[...]` list, the
\* quick fix computed from an analysis result is a replacement of exactly that
\* list by the regenerated list; it is not an insertion of a second
\* `exceptions=` parameter.
C1_RewritesExistingList ==
    (/\ phase = "fixed"
     /\ origin = "analysis"
     /\ ExceptionsMatch(DecoratorText) # None)
    => /\ edit.kind = "replace"
       /\ edit.line = FixedEndpoint.decoratorLine - 1
       /\ edit.newText = ExceptionsText(allExceptions(FixedEndpoint, requested))

\* the last argument before the insertion point sits on the previous line and
\* is not followed by a comma
LastArgumentLacksComma ==
    /\ edit.line >= 1
    /\ Trim(Substring(LineText(edit.line), 0, edit.startCol)) = <<>>
    /\ LET prev == Trim(LineText(edit.line - 1))
       IN /\ prev # <<>>
          /\ prev[Len(prev)] \notin {",", "("}

\* C2: when the closing parenthesis of a call without exceptions parameter is
\* on a later line than the last argument and that argument has no trailing
\* comma, the insertion starts with a comma, followed by a newline and the
\* `exceptions=[...]` text.
C2_CommaAfterLastArgument ==
    (/\ phase = "fixed"
     /\ edit.kind = "insert"
     /\ edit.line > FixedEndpoint.decoratorLine - 1
     /\ LastArgumentLacksComma)
    => /\ edit.newText[1] = ","
       /\ edit.newText[2] = "\n"

\* first occurrences of the elements of arr, in order
RECURSIVE Dedup(_)
Dedup(arr) ==
    IF arr = <<>> THEN <<>>
    ELSE LET init == Dedup(SubSeq(arr, 1, Len(arr) - 1))
         IN IF Includes(init, arr[Len(arr)]) THEN init
            ELSE Append(init, arr[Len(arr)])

NoRepeats(arr) == \A i, j \in 1..Len(arr) : arr[i] = arr[j] => i = j

\* the declared names followed by the requested names that are not declared,
\* each once
UnionInOrder(declared, new) == Dedup(declared \o new)

\* the text of the edit after the optional ",\n    " / "\n    " prefix
EditListText ==
    IF edit.kind = "insert"
    THEN LET skip == IF edit.newText[1] = "," THEN 6 ELSE 5
         IN SubSeq(edit.newText, skip + 1, Len(edit.newText))
    ELSE edit.newText

\* C3: the regenerated list is the declared names in declared order followed
\* by the requested names that are not declared, in the order given, no name
\* more than once, rendered as `exceptions=[n1, n2, ...]`.
C3_UnionWithoutDuplicates ==
    (phase = "fixed" /\ edit.kind # "none")
    => /\ NoRepeats(UnionInOrder(FixedEndpoint.declaredExceptions, requested))
       /\ EditListText =
            ExceptionsText(UnionInOrder(FixedEndpoint.declaredExceptions, requested))

\* C4: the replaced range is exactly the span of the `exceptions = [ ... ]`
\* match on the exceptions line: from the first character of the match to just
\* after its closing bracket.
C4_ReplacesExactlyTheMatch ==
    (phase = "fixed" /\ edit.kind = "replace")
    => LET match == ExceptionsMatch(LineText(edit.line))[1]
       IN /\ edit.startCol = match.index
          /\ edit.endCol = match.index + match.length

\* Python's reading of a line: outside a string a quote opens a literal; inside,
\* a backslash escapes the next character and the opening quote closes the
\* literal.  The result keeps the quotes and drops the contents.
RECURSIVE EmptyLiterals(_, _, _)
EmptyLiterals(text, inLiteral, quote) ==
    IF text = <<>> THEN <<>>
    ELSE LET ch == Head(text) IN
         IF ~inLiteral
         THEN IF ch = "\"" \/ ch = "'"
              THEN <<ch>> \o EmptyLiterals(Tail(text), TRUE, ch)
              ELSE <<ch>> \o EmptyLiterals(Tail(text), FALSE, quote)
         ELSE IF ch = "\\" /\ Len(text) >= 2
              THEN EmptyLiterals(Tail(Tail(text)), TRUE, quote)
              ELSE IF ch = quote
                   THEN <<ch>> \o EmptyLiterals(Tail(text), FALSE, quote)
                   ELSE EmptyLiterals(Tail(text), TRUE, quote)

\* every literal of the line is closed on the line
RECURSIVE LiteralsClosed(_, _, _)
LiteralsClosed(text, inLiteral, quote) ==
    IF text = <<>> THEN ~inLiteral
    ELSE LET ch == Head(text) IN
         IF ~inLiteral
         THEN IF ch = "\"" \/ ch = "'"
              THEN LiteralsClosed(Tail(text), TRUE, ch)
              ELSE LiteralsClosed(Tail(text), FALSE, quote)
         ELSE IF ch = "\\" /\ Len(text) >= 2
              THEN LiteralsClosed(Tail(Tail(text)), TRUE, quote)
              ELSE IF ch = quote
                   THEN LiteralsClosed(Tail(text), FALSE, quote)
                   ELSE LiteralsClosed(Tail(text), TRUE, quote)

EmptiedDoc == [k \in 1..Len(doc) |-> EmptyLiterals(doc[k], FALSE, "")]

\* C5: the closing line computed by findDecoratorEndLine is the line computed
\* for the same declaration with the contents of its string literals emptied.
C5_LiteralContentsIgnored ==
    (/\ phase = "fixed"
     /\ endLine # None
     /\ \A k \in 1..Len(doc) : LiteralsClosed(doc[k], FALSE, ""))
    => endLine[1] = findDecoratorEndLine(EmptiedDoc, FixedEndpoint.decoratorLine - 1)

\* the scan from the declaration's line leaves the loop without `return line`
ScanUnbalanced ==
    ~ScanDecorator(doc, FixedEndpoint.decoratorLine - 1, 0, 0, FALSE, "").found

\* C6: when the scan reaches the end of the document without the depth
\* returning to zero, findDecoratorEndLine returns the declaration's start
\* line, a valid line index, and the returned edit is empty.
C6_UnbalancedGivesNoEdit ==
    (/\ phase = "fixed"
     /\ endLine # None
     /\ ScanUnbalanced)
    => /\ endLine[1] = FixedEndpoint.decoratorLine - 1
       /\ endLine[1] \in 0..(Len(doc) - 1)
       /\ edit.kind = "none"

\* the parenthesis depth after the characters of text, counted from depth on
\* a line whose literal contents are emptied, and whether a `)` brought the
\* depth back to zero on the way
RECURSIVE DepthAfter(_, _, _)
DepthAfter(text, depth, zero) ==
    IF text = <<>> THEN [depth |-> depth, zero |-> zero]
    ELSE IF Head(text) = "(" THEN DepthAfter(Tail(text), depth + 1, zero)
    ELSE IF Head(text) = ")"
         THEN DepthAfter(Tail(text), depth - 1, zero \/ depth - 1 = 0)
         ELSE DepthAfter(Tail(text), depth, zero)

\* the depth at the start of line (0-based), counted from the start of line start
RECURSIVE DepthBefore(_, _)
DepthBefore(start, line) ==
    IF line = start THEN 0
    ELSE DepthAfter(EmptiedDoc[line], DepthBefore(start, line - 1), FALSE).depth

\* the lines at or after start on which the depth returns to zero
BalancingLines(start) ==
    {line \in start..(Len(doc) - 1) :
        DepthAfter(EmptiedDoc[line + 1], DepthBefore(start, line), FALSE).zero}

\* C14: findDecoratorEndLine returns the first line, at or after the start
\* line, on which the depth counted outside string literals returns to zero.
C14_FirstBalancedLine ==
    (/\ phase = "fixed"
     /\ endLine # None
     /\ \A k \in 1..Len(doc) : LiteralsClosed(doc[k], FALSE, "")
     /\ BalancingLines(FixedEndpoint.decoratorLine - 1) # {})
    => /\ endLine[1] \in BalancingLines(FixedEndpoint.decoratorLine - 1)
       /\ \A line \in BalancingLines(FixedEndpoint.decoratorLine - 1) : endLine[1] <= line

\* text holds `exceptions`, `=`, `[` and a later `]` with only white space
\* between the first three and no `]` inside the brackets
ContainsExceptionsList(text) ==
    \E i \in 1..Len(text) :
        /\ i + 9 <= Len(text)
        /\ SubSeq(text, i, i + 9) = ExceptionsWord
        /\ \E j \in (i + 10)..Len(text) :
              /\ text[j] = "="
              /\ \A x \in (i + 10)..(j - 1) : IsSpace(text[x])
              /\ \E k \in (j + 1)..Len(text) :
                    /\ text[k] = "["
                    /\ \A x \in (j + 1)..(k - 1) : IsSpace(text[x])
                    /\ \E l \in (k + 1)..Len(text) :
                          /\ text[l] = "]"
                          /\ \A x \in (k + 1)..(l - 1) : text[x] # "]"

\* C15: in the replace case, when the line named by exceptionsLine holds no
\* `exceptions = [ ... ]` text, the returned edit is empty: no replacement and
\* no insertion.
C15_NoMatchNoEdit ==
    (/\ phase = "fixed"
     /\ FixedEndpoint.exceptionsLine # None
     /\ ~ContainsExceptionsList(doc[FixedEndpoint.exceptionsLine[1]]))
    => edit = EmptyEdit

\* the exceptions line opens a list that is closed on a later line
C15_OpenListLine ==
    /\ phase = "fixed"
    /\ FixedEndpoint.exceptionsLine # None
    /\ IndexOf(doc[FixedEndpoint.exceptionsLine[1]], ExceptionsWord) >= 0
    /\ ~ContainsExceptionsList(doc[FixedEndpoint.exceptionsLine[1]])
    /\ edit = EmptyEdit

\* C13: with an add-list that is empty or holds only declared names, the
\* regenerated list is the declared list, name by name and in order, the edit
\* renders exactly that list, and regenerating with the same add-list from the
\* resulting list gives the same list again.
C13_RegenerationIdempotent ==
    (/\ phase = "fixed"
     /\ \A k \in 1..Len(requested) : Includes(FixedEndpoint.declaredExceptions, requested[k]))
    => LET once  == allExceptions(FixedEndpoint, requested)
           again == allExceptions([FixedEndpoint EXCEPT !.declaredExceptions = once],
                                  requested)
       IN /\ once = FixedEndpoint.declaredExceptions
          /\ again = once
          /\ edit.kind # "none" =>
                EditListText = ExceptionsText(FixedEndpoint.declaredExceptions)

\* an edit was produced for an add-list that names a declared exception
C13_DeclaredNameRequested ==
    /\ phase = "fixed"
    /\ edit.kind # "none"
    /\ requested # <<>>
    /\ \A k \in 1..Len(requested) : Includes(FixedEndpoint.declaredExceptions, requested[k])

\* the scan of findDecoratorEndLine for the endpoint of the quick fix
DecoratorScan == ScanDecorator(doc, FixedEndpoint.decoratorLine - 1, 0, 0, FALSE, "")

\* C21: in the insert case, when the scan has found the `)` at which its
\* depth returns to zero, the list is inserted at that character, whatever
\* follows it on the line (a comment, a string or code with further `)`).
C21_InsertAtBalancingParenthesis ==
    (/\ phase = "fixed"
     /\ endLine # None
     /\ DecoratorScan.found)
    => /\ edit.kind = "insert"
       /\ edit.line = DecoratorScan.line
       /\ edit.startCol = DecoratorScan.col

\* the same for the documents in which no `)` follows that character on its line
C21_InsertAtLastBalancing ==
    (/\ phase = "fixed"
     /\ endLine # None
     /\ DecoratorScan.found
     /\ LastIndexOf(LineText(DecoratorScan.line), ")") = DecoratorScan.col)
    => /\ edit.kind = "insert"
       /\ edit.line = DecoratorScan.line
       /\ edit.startCol = DecoratorScan.col

-----------------------------------------------------------------------------
(* Properties of the analysis life cycle (checked under Spec) *)

\* the analyzeDocument calls of path p that have not completed
InFlight(p) == {c \in calls : c.path = p}

\* the calls of path p that have not reached runFaexCli yet
AwaitingSpawn(p) == {c \in calls : c.path = p /\ c.pc \in {"saving", "saved"}}

CallIds(cs) == {c.id : c \in cs}

\* C7: in every reachable state and for every path, at most one analysis
\* started through DiagnosticsManager.analyzeDocument is in flight, whatever
\* the interleaving of the events, the save event of an analysis included.
C7_OneAnalysisPerPath ==
    \A p \in Files : Cardinality(InFlight(p)) <= 1

\* the save that an analysis of a dirty document made has raised the save
\* event, and the handler's request was dropped while the analysis goes on
C7_OwnSaveDropped ==
    \E c \in calls : c.pc = "saved" /\ c.path \in droppedNow

\* C8: a request for a path that is being analysed is dropped, not queued: the
\* step that drops it starts no invocation, adds and removes no call of the
\* path and leaves the path in progress; and in every state the requests that
\* passed the guard exceed the invocations made by exactly the calls that are
\* still ahead of their spawn, so that no invocation is owed to a dropped one.
C8_DroppedNotQueued ==
    [][\A p \in Files :
          /\ uninvoked'[p] = Cardinality(AwaitingSpawn(p))'
          /\ p \in droppedNow' =>
                /\ InFlight(p) # {}
                /\ CallIds(InFlight(p))' = CallIds(InFlight(p))
                /\ uninvoked'[p] = uninvoked[p]
                /\ p \in analysisInProgress
                /\ p \in analysisInProgress']_vars

\* a request was dropped while the tool runs for its path
C8_DroppedWhileRunning ==
    \E c \in calls : c.pc = "running" /\ c.path \in droppedNow /\ uninvoked[c.path] = 0

\* C9: a path is in analysisInProgress exactly while an analysis of it is in
\* flight: the completion of an analysis removes it whether the analysis set
\* diagnostics, had a null result or threw.
C9_InProgressOnlyWhileInFlight ==
    \A p \in Files : p \in analysisInProgress <=> InFlight(p) # {}

\* an analysis of the path has thrown in createDiagnostic (its endpoints were
\* cached, its diagnostics were not set) and the path is out of the set
C9_ClearedAfterThrow ==
    \E p \in Files :
        /\ endpointCache[p] # None
        /\ DiagnosticsThrow(endpointCache[p][1])
        /\ p \notin analysisInProgress
        /\ InFlight(p) = {}

\* C10: after the close event of a document, handled by the registered close
\* handler, no cache holds endpoint records of its path (so getEndpoints is
\* empty) and no diagnostics are published for it.
C10_ClosedPathEvicted ==
    [][\A p \in Files :
          (LateHandlersRegistered /\ docs[p].open /\ ~docs'[p].open) =>
              /\ endpointCache'[p] = None
              /\ analyzerCache'[p] = None
              /\ diagnostics'[p] = None]_vars

\* C16: a failure to spawn the tool is reported to the user once, not once
\* per analysis: whatever the number of analyses that failed to spawn it, at
\* most one error notification has been shown.
C16_SingleNotification ==
    errorsShown <= 1

\* C17: the outcome of a run does not depend on the exit code: standard
\* output that parses as JSON gives the endpoints of that JSON, with a zero or
\* a nonzero exit code, and empty or unparsable output gives a null outcome,
\* which the analyzer turns into a result with no endpoints and no errors;
\* the analysis then completes and sets an empty diagnostics list.
C17_ExitCodeIgnored ==
    lastClose # None =>
        LET run == lastClose[1] IN
        IF run.stdout.kind = "json"
        THEN /\ run.analysis.endpoints =
                    [k \in 1..Len(run.stdout.endpoints) |->
                        convertEndpoint(run.stdout.endpoints[k])]
             /\ endpointCache[run.path] = Some(run.analysis.endpoints)
             /\ analyzerCache[run.path] = Some(run.analysis.endpoints)
        ELSE /\ run.analysis = [endpoints |-> <<>>, errors |-> <<>>]
             /\ endpointCache[run.path] = Some(<<>>)
             /\ diagnostics[run.path] = Some(<<>>)
             /\ run.path \notin analysisInProgress

\* the tool has printed JSON and left with exit code 1
C17_JsonWithNonzeroExit ==
    /\ lastClose # None
    /\ lastClose[1].code = 1
    /\ lastClose[1].stdout.kind = "json"
    /\ endpointCache[lastClose[1].path] # Some(<<>>)

\* C19: a path the close handler has evicted while an analysis of it was in
\* flight has no endpointCache entry and no diagnostics until the next
\* accepted analysis request for it, also after that analysis has completed.
C19_ClosedPathStaysEvicted ==
    \A p \in evicted : endpointCache[p] = None /\ diagnostics[p] = None

\* C20: when faex.checkCurrentFile shows its count, the analysis the command
\* has started is complete (no call of it is suspended and the path has left
\* analysisInProgress), and the count is the number of diagnostics that
\* analysis has published for the file.
C20_ReportAfterAnalysis ==
    (/\ checkReport # None
     /\ checkReport[1].kind = "count"
     /\ checkReport[1].call # 0)
        => /\ checkReport[1].path \notin analysisInProgress
           /\ ~\E c \in calls : c.id = checkReport[1].call /\ c.path = checkReport[1].path
           /\ checkReport[1].count = Len(getDiagnostics(Mgr, checkReport[1].path))

\* C23: every endpoint record held in endpointCache has an empty
\* detectedExceptions list, so getUnusedDeclarations returns its whole
\* declared list, and a summary lens has the check-mark title only for an
\* endpoint with no declared and no undeclared exceptions.
C23_CachedEndpointsUndetected ==
    /\ \A p \in Files :
          endpointCache[p] # None =>
              \A k \in 1..Len(endpointCache[p][1]) :
                  LET ep == endpointCache[p][1][k] IN
                  /\ ep.detectedExceptions = <<>>
                  /\ getUnusedDeclarations(ep) = ep.declaredExceptions
    /\ codeLenses # None =>
          \A k \in 1..Len(codeLenses[1].lenses) :
              LET lens == codeLenses[1].lenses[k] IN
              /\ lens.endpoint = getEndpoints(Mgr, codeLenses[1].path)[k]
              /\ lens.unused = lens.totalDeclared
              /\ lens.title = "allGood" =>
                    /\ lens.endpoint.declaredExceptions = <<>>
                    /\ getUndeclaredExceptions(lens.endpoint) = <<>>

\* lenses for two cached endpoints with nothing undeclared: the one that
\* declares a name has the warning title, the other the check mark
C23_DeclaredOnlyShowsIssues ==
    /\ codeLenses # None
    /\ \E k \in 1..Len(codeLenses[1].lenses) :
          LET lens == codeLenses[1].lenses[k] IN
          /\ lens.endpoint.declaredExceptions # <<>>
          /\ getUndeclaredExceptions(lens.endpoint) = <<>>
          /\ lens.title = "issues"
    /\ \E k \in 1..Len(codeLenses[1].lenses) : codeLenses[1].lenses[k].title = "allGood"

-----------------------------------------------------------------------------
(* Properties of the endpoint records (checked under SpecRecord) *)

\* the detected occurrences whose class is not a declared name, in order
DetectedNotDeclared(ep) ==
    SelectSeq(ep.detectedExceptions,
              LAMBDA o : \A k \in 1..Len(ep.declaredExceptions) :
                            ep.declaredExceptions[k] # o.exceptionClass)

\* C11: getUndeclaredExceptions returns the list of the tool verbatim whenever
\* the record has one, also an empty one, and otherwise exactly the detected
\* occurrences whose class name is not declared, in detection order.
C11_UndeclaredList ==
    undeclaredResult # None =>
        IF rec[1].undeclaredExceptions # None
        THEN undeclaredResult[1] = rec[1].undeclaredExceptions[1]
        ELSE undeclaredResult[1] = DetectedNotDeclared(rec[1])

\* the record has an empty list from the tool and a detected occurrence that
\* is not declared: the empty list was returned
C11_EmptyToolListReturned ==
    /\ undeclaredResult = Some(<<>>)
    /\ rec[1].undeclaredExceptions = Some(<<>>)
    /\ DetectedNotDeclared(rec[1]) # <<>>

\* C12: getUnusedDeclarations returns exactly the declared names that are the
\* class name of no detected occurrence, in declared order.
C12_UnusedDeclarations ==
    unusedResult # None =>
        unusedResult[1] =
            SelectSeq(rec[1].declaredExceptions,
                      LAMBDA n : \A k \in 1..Len(rec[1].detectedExceptions) :
                                    rec[1].detectedExceptions[k].exceptionClass # n)

\* one declared name is detected and another is not: only the second is returned
C12_SomeUnusedSomeUsed ==
    /\ unusedResult # None
    /\ unusedResult[1] # <<>>
    /\ unusedResult[1] # rec[1].declaredExceptions

-----------------------------------------------------------------------------
(* Properties of the file exclusion (checked under SpecExclude) *)

\* the path has a directory component named tests
HasTestsDirectory(path) ==
    \E i \in 1..Len(path) :
        /\ StartsWithAt(path, <<"t", "e", "s", "t", "s", "/">>, i - 1)
        /\ (i = 1 \/ path[i - 1] = "/")

TestsPatternConfigured == \E k \in 1..Len(config.exclude) : config.exclude[k] = TestsPattern

\* C18: with **/tests/** among the exclusion patterns, a file whose
\* workspace-relative path has a tests directory component, at any depth and
\* also at the top level, is excluded whatever the other settings:
\* analyzeDocument invokes no subprocess for it and leaves the path without
\* diagnostics and without a cache entry.
C18_TestsDirectoryExcluded ==
    (/\ excludeRun # None
     /\ TestsPatternConfigured
     /\ HasTestsDirectory(asRelativePath(excludeRun[1].path)))
        => /\ excludeRun[1].invocations = 0
           /\ excludeRun[1].diagnostics = None
           /\ excludeRun[1].cache = None

\* the same for the paths whose tests directory lies below another directory
C18_NestedTestsDirectoryExcluded ==
    (/\ excludeRun # None
     /\ TestsPatternConfigured
     /\ HasTestsDirectory(asRelativePath(excludeRun[1].path))
     /\ ~StartsWithAt(asRelativePath(excludeRun[1].path), <<"t", "e", "s", "t", "s", "/">>, 0))
        => /\ excludeRun[1].invocations = 0
           /\ excludeRun[1].diagnostics = None
           /\ excludeRun[1].cache = None

C18_NestedExcludedReached ==
    /\ excludeRun # None
    /\ config.enable
    /\ excludeRun[1].path = TestPy
    /\ excludeRun[1].outcome = "excluded"

====
